---- MODULE Spec2Model ----
(***************************************************************************)
(* Hierarchical species -> breed inference router of the livestock breed   *)
(* identification apps.                                                     *)
(*                                                                          *)
(*   SpecApp     src/app.py: the Streamlit script, one action per script    *)
(*               run and one per user interaction.                          *)
(*   SpecAppFair SpecApp on one deployment, where a script run that is due  *)
(*               is executed.                                               *)
(*   Spec        src/app_comprehensive.py: main(), one action per stage of  *)
(*               the per-image loop.                                        *)
(*   SpecLedger  src/app_comprehensive.py: save_correction, one action per  *)
(*               step of a call, for every session that calls it.           *)
(*   SpecStages  src/app_comprehensive.py: the loop body of main() with the *)
(*               label lists bound, one action per stage, and app.py's two  *)
(*               paths on the same request.                                 *)
(*   SpecLabels  the label resolvers of both programs, as functions of the  *)
(*               config value, the list file and the training directory.    *)
(*   SpecReruns  src/app_comprehensive.py: reruns of main() on one upload.  *)
(*   SpecCalls   single calls of the functions of both programs, on every   *)
(*               argument within the bounds.                                *)
(*                                                                          *)
(* Probabilities and thresholds are integers in percent (0.80 is 80).      *)
(* Python indexes are 0-based; the vectors and lists here are TLA+          *)
(* sequences, so Python's v[i] is At(v, i) == v[i + 1].                     *)
(***************************************************************************)
EXTENDS Integers, Sequences, FiniteSets, TLC

VARIABLES
    \* ---- app.py -------------------------------------------------------
    a_cfg,          \* resolved labels and the species model of the deployment
    a_uploaded,     \* the file in the primary uploader, or NoFile
    a_next_upload,  \* the file in the "Upload next image" uploader, or NoFile
    a_next_bytes,   \* st.session_state["_next_bytes"], or NoFile when absent
    a_next_shown,   \* whether the last run rendered the second uploader
    a_pending,      \* a script run is due (user interaction or st.rerun())
    a_primary,      \* what the last run showed for the primary upload
    a_queued,       \* what the last run showed for the queued next image
    \* ---- app_comprehensive.py: main() ----------------------------------
    m_session,      \* st.session_state: offline_mode, privacy_mode, history, ...
    m_widgets,      \* the widget values the user has set
    m_models,       \* the models loaded by this run
    m_pc,           \* position of the run inside main()
    m_idx,          \* index of the image being processed (enumerate)
    m_loc,          \* the locals of the loop body for the current image
    m_log,          \* per image of this run: what was invoked and shown
    \* ---- app_comprehensive.py: save_correction -------------------------
    l_file,         \* corrections.csv
    l_proc,         \* per session: the call in progress
    l_done,         \* the calls that returned, in order of return
    \* ---- one request through the stages of both programs ---------------
    r_in,           \* the names the stages read: labels, image, thresholds, ...
    r_pc,           \* position inside the loop body of main()
    r_st,           \* the locals of the loop body and what it has shown
    r_app,          \* what app.py's two paths show for the same request
    \* ---- label resolution of both programs -----------------------------
    g_in,           \* the config value, the list file and the training directory
    g_out,          \* what each resolver returns for them
    \* ---- reruns of main() on the same upload -----------------------------
    d_in,           \* the image, the mode, the sidebar: fixed over the reruns
    d_runs,         \* what each run reported, in order
    \* ---- one call of a function of the programs ------------------------
    f_call,         \* the function called and its arguments
    f_ret           \* what the call returned

appVars == <<a_cfg, a_uploaded, a_next_upload, a_next_bytes, a_next_shown,
             a_pending, a_primary, a_queued>>
mainVars == <<m_session, m_widgets, m_models, m_pc, m_idx, m_loc, m_log>>
ledgerVars == <<l_file, l_proc, l_done>>
stageVars == <<r_in, r_pc, r_st, r_app>>
labelVars == <<g_in, g_out>>
rerunVars == <<d_in, d_runs>>
callVars == <<f_call, f_ret>>
vars == <<appVars, mainVars, ledgerVars, stageVars, labelVars, rerunVars, callVars>>

-----------------------------------------------------------------------------
(* Labels.  A label is a string of the source; the synthesized names are    *)
(* f-strings, kept apart here by their format.                              *)

Name(s) == [k |-> "name", h |-> "", n |-> s, i |-> 0]
\* f"{head}_class_{i}"
HeadClass(head, i) == [k |-> "head_class", h |-> head, n |-> "", i |-> i]
\* f"class_{i}"
PlainClass(i) == [k |-> "class", h |-> "", n |-> "", i |-> i]
\* Python's None, and a name that was never bound
None == [k |-> "None", h |-> "", n |-> "", i |-> 0]
\* labels[i] with i out of range raises IndexError
IndexError == [k |-> "IndexError", h |-> "", n |-> "", i |-> 0]

\* str.lower() on the label strings of the model
Lower(s) ==
    CASE s = "Sheep" -> "sheep"
      [] s = "SHEEP" -> "sheep"
      [] s = "Bovine" -> "bovine"
      [] OTHER -> s

At(v, i) == v[i + 1]

\* max(v)
VecMax(v) == CHOOSE m \in {v[j] : j \in DOMAIN v} : \A j \in DOMAIN v : v[j] <= m

\* np.argmax(v): the first index holding the maximum
Argmax(v) == (CHOOSE j \in DOMAIN v : v[j] = VecMax(v) /\ \A q \in 1..(j - 1) : v[q] # VecMax(v)) - 1

Min2(x, y) == IF x <= y THEN x ELSE y

\* np.argsort(v)[::-1]: ascending sort, stable for the short vectors of a
\* classification head (insertion sort below 16 elements), then reversed: the
\* larger value first and, among equal values, the larger index first.
RECURSIVE ArgsortFrom(_, _)
ArgsortFrom(v, left) ==
    IF left = {} THEN <<>>
    ELSE LET top == CHOOSE i \in left : \A j \in left :
                        \/ v[i] > v[j]
                        \/ (v[i] = v[j] /\ i >= j)
         IN <<top - 1>> \o ArgsortFrom(v, left \ {top})
ArgsortDesc(v) == ArgsortFrom(v, DOMAIN v)

-----------------------------------------------------------------------------
(* src/app.py                                                               *)

NoFile == "none"

\* the files a user may upload; "corrupt" is not an image
AppImages == {"confBov", "lowSp", "sheepHi", "tie", "corrupt"}

\* a decoder that takes every file for an image
DecodesAnything(img) == TRUE

\* Image.open(uploaded) succeeds
Decodable(img) == img # "corrupt"

\* models["species"].predict(...)[0], for the two species models a deployment
\* may configure: a 2-class one and a 3-class one
SpeciesOut(model, img) ==
    IF model = "sp2"
    THEN CASE img = "confBov" -> <<92, 8>>
           [] img = "lowSp"   -> <<55, 45>>
           [] img = "sheepHi" -> <<8, 92>>
           [] OTHER           -> <<50, 50>>
    ELSE CASE img = "confBov" -> <<92, 8, 0>>
           [] img = "lowSp"   -> <<20, 35, 45>>
           [] img = "sheepHi" -> <<5, 90, 5>>
           [] OTHER           -> <<40, 40, 20>>

\* models["sheep"].predict(...)[0] and models["bovine"].predict(...)[0]
BreedOut(head, img) ==
    IF head = "sheep"
    THEN CASE img = "confBov" -> <<60, 40>>
           [] img = "lowSp"   -> <<30, 70>>
           [] img = "sheepHi" -> <<15, 85>>
           [] OTHER           -> <<50, 50>>
    ELSE CASE img = "confBov" -> <<75, 15, 10>>
           [] img = "lowSp"   -> <<10, 40, 50>>
           [] img = "sheepHi" -> <<20, 30, 50>>
           [] OTHER           -> <<40, 40, 20>>

\* what resolve_all_labels can return, with the species model of the config:
\* species labels are never empty, each breed list may be
AppConfigs ==
    {[species_model |-> "sp2", species_labels |-> <<"bovine", "sheep">>,
      sheep_labels |-> <<"Deccani", "Nellore">>,
      bovine_labels |-> <<"Gir", "Sahiwal", "Murrah">>],
     [species_model |-> "sp2", species_labels |-> <<"bovine", "Sheep">>,
      sheep_labels |-> <<>>, bovine_labels |-> <<"Gir", "Sahiwal">>],
     [species_model |-> "sp3", species_labels |-> <<"goat", "SHEEP", "bovine">>,
      sheep_labels |-> <<"Deccani">>,
      bovine_labels |-> <<"Gir", "Sahiwal", "Murrah">>],
     [species_model |-> "sp3", species_labels |-> <<"bovine", "sheep">>,
      sheep_labels |-> <<"Deccani", "Nellore">>, bovine_labels |-> <<>>],
     [species_model |-> "sp3", species_labels |-> <<"bovine", "sheep">>,
      sheep_labels |-> <<"Deccani">>, bovine_labels |-> <<"Gir", "Sahiwal">>]}

\* species_labels[sp_idx] if sp_idx < len(species_labels) else "unknown"
SpeciesLabel(labels, idx) ==
    IF idx < Len(labels) THEN Name(At(labels, idx)) ELSE Name("unknown")

\* a routing that compares the label as written
RouteHeadCaseSensitive(sp_label) == IF sp_label.n = "sheep" THEN "sheep" ELSE "bovine"

\* head = "sheep" if sp_label.lower() == "sheep" else "bovine"
RouteHead(sp_label) == IF Lower(sp_label.n) = "sheep" THEN "sheep" ELSE "bovine"

\* labels = sheep_labels if head == "sheep" else bovine_labels
HeadLabels(cfg, head) == IF head = "sheep" THEN cfg.sheep_labels ELSE cfg.bovine_labels

\* a lookup without the range test
BreedLabelUnguarded(labels, head, idx) ==
    IF idx < Len(labels) THEN Name(At(labels, idx)) ELSE IndexError

\* labels[br_idx] if br_idx < len(labels) else f"{head}_class_{br_idx}"
BreedLabel(labels, head, idx) ==
    IF idx < Len(labels) THEN Name(At(labels, idx)) ELSE HeadClass(head, idx)

\* render_low_conf_badge
Badge(conf) ==
    IF conf >= 80 THEN "green" ELSE IF conf >= 50 THEN "amber" ELSE "red"

\* topk(labels, probs, k)
topk(labels, probs, k) ==
    LET idxs == SubSeq(ArgsortDesc(probs), 1, Min2(k, Len(labels)))
    IN [j \in 1..Len(idxs) |->
          [label |-> IF idxs[j] < Len(labels) THEN Name(At(labels, idxs[j]))
                     ELSE PlainClass(idxs[j]),
           conf |-> At(probs, idxs[j])]]

\* what a run shows for one image
BlankResult ==
    [stage |-> "none", img |-> NoFile, sp_label |-> None, sp_conf |-> 0,
     head |-> "none", invoked |-> {},
     br_label |-> None, br_conf |-> 0, top |-> <<>>, errors |-> {},
     flags |-> {}, sp_badge |-> "none", br_badge |-> "none"]

\* Stage 1: species
AppSpecies(cfg, img) ==
    LET sp_probs == SpeciesOut(cfg.species_model, img)
        sp_idx == Argmax(sp_probs)
        sp_label == SpeciesLabel(cfg.species_labels, sp_idx)
        sp_conf == At(sp_probs, sp_idx)
    IN [BlankResult EXCEPT !.stage = "species", !.img = img,
          !.sp_label = sp_label, !.sp_conf = sp_conf,
          !.invoked = {"species"}, !.sp_badge = Badge(sp_conf),
          !.flags = IF sp_conf < 50 THEN {"species_low"} ELSE {}]

\* Stage 2: breed on the routed head, given the stage 1 result r
AppBreed(cfg, r, head, labels) ==
    LET br_probs == BreedOut(head, r.img)
        br_idx == Argmax(br_probs)
        br_label == BreedLabel(labels, head, br_idx)
        br_conf == At(br_probs, br_idx)
    IN [r EXCEPT !.stage = "breed", !.head = head,
          !.invoked = r.invoked \cup {head},
          !.br_label = br_label, !.br_conf = br_conf,
          !.br_badge = Badge(br_conf),
          !.flags = r.flags \cup (IF br_conf < 50 THEN {"breed_low"} ELSE {}),
          !.top = topk(labels, br_probs, 3)]

\* The primary path; fail names the model invocation that raises, if any.
\* Every error here is shown with st.error and ends the run with st.stop().
PrimaryResult(cfg, img, fail) ==
    IF ~Decodable(img)
    THEN [BlankResult EXCEPT !.stage = "stopped", !.img = img, !.errors = {"decode"}]
    ELSE IF fail = "species"
    THEN [BlankResult EXCEPT !.stage = "stopped", !.img = img,
            !.invoked = {"species"}, !.errors = {"species_model"}]
    ELSE LET r == AppSpecies(cfg, img)
             head == RouteHead(r.sp_label)
             labels == HeadLabels(cfg, head)
         IN IF labels = <<>>
            THEN [r EXCEPT !.stage = "stopped", !.head = head,
                    !.errors = {"config"}]
            ELSE IF fail = "breed"
            THEN [r EXCEPT !.stage = "stopped", !.head = head,
                    !.invoked = r.invoked \cup {head}, !.errors = {"breed_model"}]
            ELSE AppBreed(cfg, r, head, labels)

\* The queued next-image path: the same stages with no try/except and no
\* st.stop(); an exception ends the run with Streamlit's traceback.
QueuedResult(cfg, img, fail) ==
    IF ~Decodable(img)
    THEN [BlankResult EXCEPT !.stage = "exception", !.img = img]
    ELSE IF fail = "species"
    THEN [BlankResult EXCEPT !.stage = "exception", !.img = img, !.invoked = {"species"}]
    ELSE LET r == AppSpecies(cfg, img)
             head == RouteHead(r.sp_label)
             labels == HeadLabels(cfg, head)
         IN IF labels = <<>>
            THEN [r EXCEPT !.head = head]
            ELSE IF fail = "breed"
            THEN [r EXCEPT !.stage = "exception", !.head = head,
                    !.invoked = r.invoked \cup {head}]
            ELSE AppBreed(cfg, r, head, labels)

-----------------------------------------------------------------------------
(* src/app_comprehensive.py: the quality gate                               *)

\* the images a user may upload to app_comprehensive.py
MainImages == {"confBov", "lowSp"}

\* What assess_image_quality measures on an image: image.size, the Laplacian
\* variance, mean brightness and standard deviation (both in 1/1000 of the
\* 0..1 scale) and the uploaded file's size in MB.
QualityInputs(img) ==
    CASE img = "confBov" -> [width |-> 1024, height |-> 1024, variance |-> 300,
                             brightness |-> 520, dynamic_range |-> 200, size |-> 2]
      [] img = "lowSp"   -> [width |-> 1024, height |-> 600, variance |-> 150,
                             brightness |-> 50, dynamic_range |-> 160, size |-> 1]
      [] img = "sheepHi" -> [width |-> 800, height |-> 600, variance |-> 200,
                             brightness |-> 400, dynamic_range |-> 180, size |-> 6]
      [] OTHER           -> [width |-> 400, height |-> 300, variance |-> 60,
                             brightness |-> 800, dynamic_range |-> 100, size |-> 6]

\* max_file_size_mb, the number input's default
MaxFileSizeMb == 5

Max2(x, y) == IF x >= y THEN x ELSE y

\* a score as an exact fraction num/den
Frac(n, d) == [num |-> n, den |-> d]

\* assess_image_quality(image, file_size_bytes, max_file_size_bytes): the rules
\* of the report; file_size is present when both sizes are given
assess_image_quality(q, has_sizes, max_size) ==
    LET rules ==
          [resolution |-> [pass |-> q.width >= 512 /\ q.height >= 512,
                           score |-> Frac(Min2(q.width, q.height), 512)],
           blur |-> [pass |-> q.variance >= 120, score |-> Frac(q.variance, 120)],
           brightness |-> [pass |-> 250 <= q.brightness /\ q.brightness <= 750,
                           score |-> IF q.brightness < 500
                                     THEN Frac(Min2(q.brightness, 1000 - q.brightness), 250)
                                     ELSE Frac(1, 1)],
           dynamic_range |-> [pass |-> q.dynamic_range >= 150,
                              score |-> Frac(q.dynamic_range, 150)]]
        file_size == [pass |-> q.size <= max_size,
                      score |-> IF max_size >= Max2(1, q.size) THEN Frac(1, 1)
                                ELSE Frac(max_size, Max2(1, q.size))]
    IN [present |-> TRUE,
        rules |-> rules,
        has_file_size |-> has_sizes,
        file_size |-> file_size,
        \* mean of the four scores, over the common denominator 4 * 192000
        overall_score |-> Frac(rules.resolution.score.num * 375
                                 + rules.blur.score.num * 1600
                                 + rules.brightness.score.num
                                     * (192000 \div rules.brightness.score.den)
                                 + rules.dynamic_range.score.num * 1280,
                               768000),
        overall_pass |-> /\ rules.resolution.pass /\ rules.blur.pass
                         /\ rules.brightness.pass /\ rules.dynamic_range.pass]

\* quality_results of an image whose check is disabled (the name is not bound)
NoQuality ==
    [present |-> FALSE,
     rules |-> [resolution |-> [pass |-> TRUE, score |-> Frac(0, 1)],
                blur |-> [pass |-> TRUE, score |-> Frac(0, 1)],
                brightness |-> [pass |-> TRUE, score |-> Frac(0, 1)],
                dynamic_range |-> [pass |-> TRUE, score |-> Frac(0, 1)]],
     has_file_size |-> FALSE,
     file_size |-> [pass |-> TRUE, score |-> Frac(0, 1)],
     overall_score |-> Frac(0, 1),
     overall_pass |-> TRUE]

-----------------------------------------------------------------------------
(* src/app_comprehensive.py: main()                                         *)
(*                                                                          *)
(* The module never binds species_labels, sheep_labels or bovine_labels    *)
(* (ensure_labels is defined and never called), so the first read of       *)
(* species_labels, at line 770, raises NameError: outside the offline      *)
(* branch no image gets past the species stage.                            *)

\* images of one upload, and entries kept in the session history
MaxBatch == 2
MaxHistory == 2

\* the positions of the species threshold slider that the model tries
Thresholds == {80, 90}

\* Softmax outputs of the lite model's 2-unit head.  load_mobile_net_model
\* builds the head anew, with fresh random weights, on every run.
LiteVecs == {<<50, 50>>, <<90, 10>>}

Unset == <<>>

\* Lines 346-357: the centre-weighted region.  crop_size is the float
\* min(width, height) * 0.8 and crop_size // 2 its floor division, so the
\* half side is floor(0.4 * min(width, height)).
CenterWeighted(image) ==
    LET center_x == image.width \div 2
        center_y == image.height \div 2
        half == (2 * Min2(image.width, image.height)) \div 5
    IN [x1 |-> Max2(0, center_x - half), y1 |-> Max2(0, center_y - half),
        x2 |-> Min2(image.width, center_x + half),
        y2 |-> Min2(image.height, center_y + half)]

\* Lines 361-365: the centre square
CenterSquare(image) ==
    LET min_dim == Min2(image.height, image.width)
        start_x == (image.width - min_dim) \div 2
        start_y == (image.height - min_dim) \div 2
    IN [x1 |-> start_x, y1 |-> start_y, x2 |-> start_x + min_dim, y2 |-> start_y + min_dim]

\* img_array[y1:y2, x1:x2]: the pixels of the region, its corner kept
Slice(region) ==
    [width |-> Max2(0, region.x2 - region.x1), height |-> Max2(0, region.y2 - region.y1),
     x |-> region.x1, y |-> region.y1, original |-> FALSE]

\* Image.fromarray(cropped).  For an array without pixels the outcome is the
\* library's: Pillow up to 10.0 raises ValueError from frombytes, later
\* releases return an image of size zero.
fromarray(cropped) ==
    IF cropped.width = 0 \/ cropped.height = 0
    THEN {[raised |-> "ValueError", image |-> cropped],
          [raised |-> "none", image |-> cropped]}
    ELSE {[raised |-> "none", image |-> cropped]}

\* the image itself, handed back by the except clause at lines 368-370
Uncropped(image) ==
    [width |-> image.width, height |-> image.height, x |-> 0, y |-> 0, original |-> TRUE]

\* auto_crop_image(image, use_face_detection): the images it can return
auto_crop_image(image, use_face_detection) ==
    LET region == IF use_face_detection THEN CenterWeighted(image) ELSE CenterSquare(image)
    IN {IF o.raised # "none" THEN Uncropped(image) ELSE o.image :
            o \in fromarray(Slice(region))}

\* Lines 739-750: the pixels handed to the models, and whether cropping cut
\* the image; the detector checkbox (line 613) is left at its default
Processing(img, crop) ==
    [img |-> img,
     cut |-> crop /\ \E c \in auto_crop_image(QualityInputs(img), FALSE) :
                        \/ c.width # QualityInputs(img).width
                        \/ c.height # QualityInputs(img).height]

\* species_model.predict(img_batch)[0] of the model loaded from cfg["species_model"]
SpeciesOutFull(proc) ==
    IF proc.cut /\ proc.img = "lowSp" THEN <<60, 40>> ELSE SpeciesOut("sp2", proc.img)

\* a gate that drops the image when a rule fails
QualityBlocks(quality_results) == IF quality_results.overall_pass THEN "crop" ELSE "next"

\* Lines 726-739: after the badges and tips the loop body goes on to the crop
\* step whatever the report says.
AfterQuality(quality_results) == "crop"

\* sp_label = "bovine" if sp_probs[0] > 0.5 else "sheep"
OfflineLabel(sp_probs) == IF At(sp_probs, 0) > 50 THEN "bovine" ELSE "sheep"

NoClick == [kind |-> "none", idx |-> 0]

BlankLoc ==
    [image |-> NoFile, quality_results |-> NoQuality,
     processing |-> [img |-> NoFile, cut |-> FALSE],
     sp_probs |-> Unset, sp_label |-> None, sp_conf |-> 0,
     \* the names among br_label, br_conf, breed_probs that are bound
     bound |-> {}]

\* what the run did for one image of the batch
BlankEntry(img) ==
    [img |-> img, offline |-> FALSE, species_model |-> "none", threshold |-> 0,
     quality |-> NoQuality, invoked |-> {}, sp_probs |-> Unset,
     sp_label |-> None, sp_conf |-> 0, species_shown |-> "none",
     guardrail |-> FALSE, breed |-> None, recorded |-> FALSE,
     report |-> "none", raised |-> "none", finished |-> FALSE]

\* main()'s locals do not outlive the run
NoModels == [species |-> "none", breeds |-> FALSE, lite_out |-> [i \in MainImages |-> Unset]]

MainStart ==
    /\ m_session = [offline_mode |-> FALSE, privacy_mode |-> FALSE,
                    session_history |-> <<>>, show_history |-> FALSE]
    /\ m_widgets = [offline |-> FALSE, privacy |-> FALSE, quality |-> TRUE,
                    crop |-> TRUE, species_threshold |-> 80, files |-> <<>>,
                    clicked |-> NoClick]
    /\ m_models = NoModels
    /\ m_pc = "done"
    /\ m_idx = 0
    /\ m_loc = BlankLoc
    /\ m_log = <<>>

\* the script is not running and the history has room for one more batch
Interactive ==
    /\ m_pc \in {"done", "crashed"}
    /\ Len(m_session.session_history) < MaxHistory

\* every interaction reruns main(); a button reads True in that run only
Rerun(widgets) ==
    /\ m_widgets' = widgets
    /\ m_pc' = "start"
    /\ UNCHANGED <<m_session, m_models, m_idx, m_loc, m_log>>
    /\ UNCHANGED <<appVars, ledgerVars, stageVars, labelVars, rerunVars, callVars>>

UserToggle(w) ==
    /\ Interactive
    /\ \/ w = "offline" /\ Rerun([m_widgets EXCEPT !.offline = ~@, !.clicked = NoClick])
       \/ w = "privacy" /\ Rerun([m_widgets EXCEPT !.privacy = ~@, !.clicked = NoClick])
       \/ w = "quality" /\ Rerun([m_widgets EXCEPT !.quality = ~@, !.clicked = NoClick])

UserThreshold(t) ==
    /\ Interactive
    /\ t # m_widgets.species_threshold
    /\ Rerun([m_widgets EXCEPT !.species_threshold = t, !.clicked = NoClick])

UserFiles(files) ==
    /\ Interactive
    /\ files # m_widgets.files
    /\ Rerun([m_widgets EXCEPT !.files = files, !.clicked = NoClick])

\* a button under the result of image idx, which the last run rendered
UserClick(kind, idx) ==
    /\ Interactive
    /\ idx + 1 \in DOMAIN m_log
    /\ m_log[idx + 1].finished
    /\ Rerun([m_widgets EXCEPT !.clicked = [kind |-> kind, idx |-> idx]])

\* Lines 557-665: session defaults, model loading by the offline flag the
\* session holds from the previous run, then the sidebar, which stores this
\* run's checkbox values into the session.
StartRun ==
    /\ m_pc = "start"
    /\ \E lite \in {"lite", "none"} :
          m_models' = IF m_session.offline_mode
                      THEN [species |-> lite, breeds |-> FALSE,
                            lite_out |-> [i \in MainImages |-> Unset]]
                      ELSE [species |-> "full", breeds |-> TRUE,
                            lite_out |-> [i \in MainImages |-> Unset]]
    /\ m_session' = [m_session EXCEPT !.privacy_mode = m_widgets.privacy,
                                      !.offline_mode = m_widgets.offline]
    /\ m_loc' = BlankLoc
    /\ m_log' = <<>>
    /\ m_idx' = 0
    /\ m_pc' = IF m_widgets.files = <<>> THEN "tail" ELSE "quality"
    /\ UNCHANGED m_widgets
    /\ UNCHANGED <<appVars, ledgerVars, stageVars, labelVars, rerunVars, callVars>>

\* Lines 667-737: open the image, then the advisory quality report
QualityGate ==
    /\ m_pc = "quality"
    /\ LET image == m_widgets.files[m_idx + 1]
           quality_results ==
               IF m_widgets.quality
               THEN assess_image_quality(QualityInputs(image), TRUE, MaxFileSizeMb)
               ELSE m_loc.quality_results
       IN /\ m_loc' = [m_loc EXCEPT !.image = image, !.quality_results = quality_results]
          /\ m_log' = Append(m_log,
                 [BlankEntry(image) EXCEPT
                    !.offline = m_session.offline_mode,
                    !.species_model = m_models.species,
                    !.threshold = m_widgets.species_threshold,
                    !.quality = IF m_widgets.quality THEN quality_results ELSE NoQuality])
          /\ m_pc' = IF m_widgets.quality THEN AfterQuality(quality_results) ELSE "crop"
    /\ UNCHANGED <<m_session, m_widgets, m_models, m_idx>>
    /\ UNCHANGED <<appVars, ledgerVars, stageVars, labelVars, rerunVars, callVars>>

\* Lines 739-755: crop assist and prepare_image
CropAssist ==
    /\ m_pc = "crop"
    /\ m_loc' = [m_loc EXCEPT !.processing = Processing(m_loc.image, m_widgets.crop)]
    /\ m_pc' = "species"
    /\ UNCHANGED <<m_session, m_widgets, m_models, m_idx, m_log>>
    /\ UNCHANGED <<appVars, ledgerVars, stageVars, labelVars, rerunVars, callVars>>

\* an exception nothing catches ends the run
Raise(what) ==
    /\ m_log' = [m_log EXCEPT ![m_idx + 1].raised = what]
    /\ m_pc' = "crashed"
    /\ m_loc' = BlankLoc
    /\ m_models' = NoModels
    /\ m_widgets' = [m_widgets EXCEPT !.clicked = NoClick]

\* Lines 760-771: species prediction
SpeciesStage ==
    /\ m_pc = "species"
    /\ IF m_session.offline_mode /\ m_models.species # "none"
       THEN \* the offline branch, with whichever species model this run loaded
            \E v \in LiteVecs :
               LET sp_probs == IF m_models.species = "full"
                               THEN SpeciesOutFull(m_loc.processing)
                               ELSE IF m_models.lite_out[m_loc.image] # Unset
                               THEN m_models.lite_out[m_loc.image]
                               ELSE v
                   sp_label == Name(OfflineLabel(sp_probs))
                   sp_conf == VecMax(sp_probs)
               IN /\ m_models' = IF m_models.species = "lite"
                                 THEN [m_models EXCEPT !.lite_out[m_loc.image] = sp_probs]
                                 ELSE m_models
                  /\ m_loc' = [m_loc EXCEPT !.sp_probs = sp_probs, !.sp_label = sp_label,
                                 !.sp_conf = sp_conf,
                                 !.bound = @ \cup {"breed_probs"}]
                  /\ m_log' = [m_log EXCEPT ![m_idx + 1].invoked = @ \cup {"species"},
                                 ![m_idx + 1].sp_probs = sp_probs,
                                 ![m_idx + 1].sp_label = sp_label,
                                 ![m_idx + 1].sp_conf = sp_conf]
                  /\ m_pc' = "route"
                  /\ UNCHANGED m_widgets
       ELSE IF m_models.species = "none"
       THEN \* None.predict
            Raise("AttributeError")
       ELSE \* predict returns, then species_labels is read
            /\ m_log' = [m_log EXCEPT ![m_idx + 1].invoked = @ \cup {"species"},
                           ![m_idx + 1].sp_probs = SpeciesOutFull(m_loc.processing),
                           ![m_idx + 1].raised = "NameError"]
            /\ m_pc' = "crashed"
            /\ m_loc' = BlankLoc
            /\ m_models' = NoModels
            /\ m_widgets' = [m_widgets EXCEPT !.clicked = NoClick]
    /\ UNCHANGED <<m_session, m_idx>>
    /\ UNCHANGED <<appVars, ledgerVars, stageVars, labelVars, rerunVars, callVars>>

\* Lines 779-895: species result, router guardrail, breed stage.  Both breed
\* branches require the offline flag to be off, and with it off the species
\* stage has raised: here the flag is on and neither branch is taken.
Router ==
    /\ m_pc = "route"
    /\ LET guardrail == m_loc.sp_conf < m_widgets.species_threshold
                          /\ ~m_session.offline_mode
           breed == m_loc.sp_conf >= m_widgets.species_threshold
                          /\ ~m_session.offline_mode
       IN IF guardrail \/ breed
          THEN \* sheep_model / bovine_model are None in a run that loaded the
               \* lite model; otherwise the label lists are unbound
               Raise(IF m_models.breeds THEN "NameError" ELSE "AttributeError")
          ELSE /\ m_log' = [m_log EXCEPT ![m_idx + 1].species_shown =
                               IF m_loc.sp_conf >= m_widgets.species_threshold
                               THEN "success" ELSE "warning"]
               /\ m_pc' = "history"
               /\ UNCHANGED <<m_loc, m_models, m_widgets>>
    /\ UNCHANGED <<m_session, m_idx>>
    /\ UNCHANGED <<appVars, ledgerVars, stageVars, labelVars, rerunVars, callVars>>

\* br_label if sp_conf >= species_threshold else <other>: the value, or
\* UnboundLocalError when the chosen name was never assigned
BreedOrElse(other) ==
    IF m_loc.sp_conf >= m_widgets.species_threshold
    THEN (IF "br_label" \in m_loc.bound THEN Name("bound") ELSE Name("UnboundLocalError"))
    ELSE other

\* Lines 896-907: the session-history entry
HistoryAppend ==
    /\ m_pc = "history"
    /\ IF m_session.privacy_mode
       THEN /\ m_pc' = "actions"
            /\ UNCHANGED <<m_session, m_log, m_loc, m_models, m_widgets>>
       ELSE IF BreedOrElse(None) = Name("UnboundLocalError")
       THEN /\ Raise("UnboundLocalError")
            /\ UNCHANGED m_session
       ELSE /\ m_session' = [m_session EXCEPT !.session_history =
                  Append(@, [image_hash |-> m_loc.image,
                             species |-> m_loc.sp_label,
                             species_confidence |-> m_loc.sp_conf,
                             breed |-> BreedOrElse(None)])]
            /\ m_log' = [m_log EXCEPT ![m_idx + 1].recorded = TRUE,
                                      ![m_idx + 1].breed = BreedOrElse(None)]
            /\ m_pc' = "actions"
            /\ UNCHANGED <<m_loc, m_models, m_widgets>>
    /\ UNCHANGED m_idx
    /\ UNCHANGED <<appVars, ledgerVars, stageVars, labelVars, rerunVars, callVars>>

\* Lines 909-935: the three buttons under a result, then the next image
ResultActions ==
    /\ m_pc = "actions"
    /\ LET mine == m_widgets.clicked.idx = m_idx
           kind == IF mine THEN m_widgets.clicked.kind ELSE "none"
           last == m_idx + 1 = Len(m_widgets.files)
       IN IF kind = "report" /\ BreedOrElse(Name("N/A")) = Name("UnboundLocalError")
          THEN /\ Raise("UnboundLocalError")
               /\ UNCHANGED <<m_session, m_idx>>
          ELSE IF kind = "new"
          THEN \* st.rerun()
               /\ m_pc' = "start"
               /\ m_widgets' = [m_widgets EXCEPT !.clicked = NoClick]
               /\ m_log' = [m_log EXCEPT ![m_idx + 1].finished = TRUE]
               /\ UNCHANGED <<m_session, m_idx, m_loc, m_models>>
          ELSE /\ m_log' = [m_log EXCEPT ![m_idx + 1].finished = TRUE,
                              ![m_idx + 1].report =
                                  IF kind = "report" THEN "N/A" ELSE "none"]
               /\ m_session' = IF kind = "history"
                               THEN [m_session EXCEPT !.show_history = TRUE]
                               ELSE m_session
               /\ m_idx' = IF last THEN m_idx ELSE m_idx + 1
               /\ m_pc' = IF last THEN "tail" ELSE "quality"
               /\ UNCHANGED <<m_widgets, m_loc, m_models>>
    /\ UNCHANGED <<appVars, ledgerVars, stageVars, labelVars, rerunVars, callVars>>

\* Lines 937-997: history view and queue status; the run ends
HistorySection ==
    /\ m_pc = "tail"
    /\ m_pc' = "done"
    /\ m_loc' = BlankLoc
    /\ m_models' = NoModels
    /\ m_idx' = 0
    /\ m_widgets' = [m_widgets EXCEPT !.clicked = NoClick]
    /\ UNCHANGED <<m_session, m_log>>
    /\ UNCHANGED <<appVars, ledgerVars, stageVars, labelVars, rerunVars, callVars>>

\* the uploads of at most MaxBatch images
Batches == UNION {[1..n -> MainImages] : n \in 0..MaxBatch}

AppIdle ==
    /\ a_cfg = CHOOSE c \in AppConfigs : c.species_model = "sp2" /\ c.sheep_labels # <<>>
    /\ a_uploaded = NoFile
    /\ a_next_upload = NoFile
    /\ a_next_bytes = NoFile
    /\ a_next_shown = FALSE
    /\ a_pending = FALSE
    /\ a_primary = BlankResult
    /\ a_queued = BlankResult

\* the browser sessions that share corrections.csv
Sessions == {1, 2}

\* a session outside save_correction, before its first call
IdleProc ==
    [pc |-> "idle", call |-> 0, actual |-> "", file_exists |-> FALSE,
     pending |-> <<>>, failed |-> "none", returned |-> "none",
     shown |-> "", queued |-> FALSE, history |-> "none",
     \* the history entry appended for the image of the last call
     recorded |-> "none",
     \* st.session_state.active_learning_queue, and what the last export gave
     queue |-> <<>>, exported |-> "none"]

\* CORRECTIONS_FILE does not exist until the first correction is saved
LedgerIdle ==
    /\ l_file = [exists |-> FALSE, rows |-> <<>>]
    /\ l_proc = [s \in Sessions |-> IdleProc]
    /\ l_done = <<>>

\* no top-1 of a head yet
NoBest == [label |-> None, conf |-> 0]

\* the loop body before it has run for the request
BlankStage ==
    [quality |-> NoQuality, invoked |-> {}, shown |-> {},
     sp_probs |-> Unset, sp_label |-> None, sp_conf |-> 0,
     sheep_best |-> NoBest, bovine_best |-> NoBest,
     head |-> "none", br_label |-> None, br_conf |-> 0, top |-> <<>>,
     history |-> <<>>, raised |-> "none",
     \* the image's position in the batch; the local idx; the widget and form
     \* keys this run has registered
     index |-> 0, idx |-> 0, keys |-> {}]

\* no request is under way
StageIdle ==
    /\ r_in = [cfg |-> CHOOSE c \in AppConfigs : TRUE, img |-> NoFile, fail |-> "none",
               species_threshold |-> 80, breed_threshold |-> 70, quality |-> TRUE,
               privacy |-> FALSE]
    /\ r_pc = "idle"
    /\ r_st = BlankStage
    /\ r_app = [primary |-> BlankResult, queued |-> BlankResult]

-----------------------------------------------------------------------------
(* Label resolution: src/app.py, _infer_labels_from_dir,                    *)
(* _resolve_label_field and resolve_all_labels (lines 110-145), and         *)
(* src/app_comprehensive.py, ensure_labels (lines 245-256).                 *)

\* a JSON value, or a value of the config: a list of names, an object, a
\* path string, or None
JList(v) == [k |-> "list", v |-> v]
JDict == [k |-> "dict", v |-> <<>>]
JPath == [k |-> "path", v |-> <<>>]
JNone == [k |-> "none", v |-> <<>>]

\* what a resolver gives: a value, or an exception
Returned(data) == [raised |-> "none", data |-> data]
Raised(e) == [raised |-> e, data |-> JNone]

\* cfg.get("sheep_labels"): an explicit list, an empty list, a path, nothing
LabelFields == {JList(<<"Nellore", "Deccani">>), JList(<<>>), JPath, JNone}

\* the file the path names: absent, not readable, not JSON, a JSON object,
\* an empty JSON list, a JSON list of names
ListFiles == {"missing", "unreadable", "garbage", "dict", "empty", "list"}

\* json.loads(Path(val).read_text()) of a file that exists
ReadJson(file) ==
    CASE file = "unreadable" -> Raised("OSError")
      [] file = "garbage"    -> Raised("JSONDecodeError")
      [] file = "dict"       -> Returned(JDict)
      [] file = "empty"      -> Returned(JList(<<>>))
      [] OTHER               -> Returned(JList(<<"Marwari", "Gaddi">>))

\* the names a training directory may hold, in alphabetical order
DirNames == <<"Deccani", "Gaddi", "Marwari">>
Rank(name) == CHOOSE i \in 1..Len(DirNames) : DirNames[i] = name

\* hierarchical_data/<head>_breeds/train: absent, or its entries in the
\* order iterdir() yields them
TrainDirs ==
    {[exists |-> FALSE, entries |-> <<>>],
     [exists |-> TRUE, entries |-> <<>>],
     [exists |-> TRUE, entries |-> <<[name |-> "Marwari", is_dir |-> TRUE],
                                     [name |-> "Deccani", is_dir |-> TRUE]>>],
     [exists |-> TRUE, entries |-> <<[name |-> "Gaddi", is_dir |-> TRUE],
                                     [name |-> "Marwari", is_dir |-> FALSE],
                                     [name |-> "Deccani", is_dir |-> TRUE]>>]}

\* [d.name for d in train_dir.iterdir() if d.is_dir()]
RECURSIVE SubdirNames(_)
SubdirNames(entries) ==
    IF entries = <<>> THEN <<>>
    ELSE (IF Head(entries).is_dir THEN <<Head(entries).name>> ELSE <<>>)
         \o SubdirNames(Tail(entries))

RECURSIVE InsertSorted(_, _)
InsertSorted(name, names) ==
    IF names = <<>> THEN <<name>>
    ELSE IF Rank(name) <= Rank(Head(names)) THEN <<name>> \o names
    ELSE <<Head(names)>> \o InsertSorted(name, Tail(names))

RECURSIVE sorted(_)
sorted(names) ==
    IF names = <<>> THEN <<>> ELSE InsertSorted(Head(names), sorted(Tail(names)))

\* app.py, lines 110-114
_infer_labels_from_dir(dir) ==
    IF dir.exists THEN sorted(SubdirNames(dir.entries)) ELSE <<>>

\* app.py, lines 116-126
_resolve_label_field(val, file, fallback_list) ==
    IF val.k = "list" /\ val.v # <<>> THEN Returned(val)
    ELSE IF /\ val.k = "path" /\ file # "missing"
            /\ ReadJson(file).raised = "none"
            /\ ReadJson(file).data.k = "list" /\ ReadJson(file).data.v # <<>>
    THEN ReadJson(file)
    ELSE Returned(JList(fallback_list))

\* app.py, lines 138-144, for one head
resolve_all_labels(val, file, dir) ==
    LET r == _resolve_label_field(val, file, _infer_labels_from_dir(dir))
    IN IF r.data.k # "list" THEN Returned(JList(<<>>)) ELSE r

\* the fallback_json argument: None, a path to no file, a file with a list
FallbackFiles == {"none", "missing", "list"}

\* app_comprehensive.py, lines 245-256
ensure_labels(val, file, fallback_json, dir) ==
    IF val.k = "list" /\ val.v # <<>> THEN Returned(val)
    ELSE IF val.k = "path" /\ file # "missing" THEN ReadJson(file)
    ELSE IF dir.exists THEN Returned(JList(sorted(SubdirNames(dir.entries))))
    ELSE IF fallback_json \notin {"none", "missing"} THEN ReadJson(fallback_json)
    ELSE Returned(JList(<<>>))

\* nothing has been resolved
LabelsIdle ==
    /\ g_in = [val |-> JNone, file |-> "missing", fallback_json |-> "none",
               dir |-> [exists |-> FALSE, entries |-> <<>>]]
    /\ g_out = [resolved |-> FALSE, app |-> Returned(JNone), full |-> Returned(JNone)]

\* nothing has been uploaded
RerunsIdle ==
    /\ d_in = [img |-> NoFile, offline |-> FALSE, crop |-> TRUE, species_threshold |-> 80]
    /\ d_runs = <<>>

\* no function has been called
NoCall == [fn |-> "none"]

CallsIdle ==
    /\ f_call = NoCall
    /\ f_ret = NoCall

Init == MainStart /\ AppIdle /\ LedgerIdle /\ StageIdle /\ LabelsIdle /\ RerunsIdle /\ CallsIdle

Next ==
    \/ \E w \in {"offline", "privacy", "quality"} : UserToggle(w)
    \/ \E t \in Thresholds : UserThreshold(t)
    \/ \E files \in Batches : UserFiles(files)
    \/ \E kind \in {"report", "new", "history"}, idx \in 0..(MaxBatch - 1) : UserClick(kind, idx)
    \/ StartRun
    \/ QualityGate
    \/ CropAssist
    \/ SpeciesStage
    \/ Router
    \/ HistoryAppend
    \/ ResultActions
    \/ HistorySection

Spec == Init /\ [][Next]_vars

-----------------------------------------------------------------------------
(* Claims about main()                                                      *)

\* the run has left the species stage of image i (0-based i - 1)
PastSpecies(i) == i < Len(m_log) \/ m_pc \notin {"crop", "species"}

\* the run is through with image i: its result block is complete, or an
\* exception ended the run there
Ended(e) == e.finished \/ e.raised # "none"

\* C1: with offline mode off, every run for an image ends in exactly one of
\* two outcomes: at or above the species threshold the routed breed head is
\* invoked and a breed is produced with no guardrail result; below it both
\* guardrail heads are invoked and the recorded breed is None.  Never both,
\* never neither.
C1_ExactlyOneOutcome ==
    \A i \in DOMAIN m_log :
        LET e == m_log[i]
            routed == /\ "breed" \in e.invoked
                      /\ "guardrail" \notin e.invoked
                      /\ ~e.guardrail
                      /\ e.breed # None
            guarded == /\ "guardrail" \in e.invoked
                       /\ "breed" \notin e.invoked
                       /\ e.guardrail
                       /\ e.breed = None
        IN (~e.offline /\ Ended(e)) =>
              /\ routed \/ guarded
              /\ e.sp_conf >= e.threshold => routed
              /\ e.sp_conf < e.threshold => guarded

\* C3: in offline mode, whatever the species confidence, processing an image
\* runs to completion, invokes no breed model and no guardrail head, and the
\* recorded result has breed None.
C3_OfflineRunsToCompletion ==
    \A i \in DOMAIN m_log :
        LET e == m_log[i]
        IN (e.offline /\ e.species_model # "none" /\ PastSpecies(i)) =>
              /\ e.raised = "none"
              /\ e.invoked \subseteq {"species"}
              /\ e.breed = None

\* C6: when classes share the maximum probability exactly, the reported
\* label is the one of the lowest index among them (index 0 is bovine, index
\* 1 is sheep in offline mode) and the reported confidence is that maximum.
C6_TiesGoToLowestIndex ==
    \A i \in DOMAIN m_log :
        LET e == m_log[i]
        IN e.sp_label # None =>
              /\ e.sp_label = Name(IF Argmax(e.sp_probs) = 0 THEN "bovine" ELSE "sheep")
              /\ e.sp_conf = VecMax(e.sp_probs)

PresentScoreSum(q) ==
    LET four == q.rules.resolution.score.num * 375
                  + q.rules.blur.score.num * 1600
                  + q.rules.brightness.score.num * (192000 \div q.rules.brightness.score.den)
                  + q.rules.dynamic_range.score.num * 1280
    IN IF q.has_file_size
       THEN [num |-> four * q.file_size.score.den + q.file_size.score.num * 192000,
             den |-> q.file_size.score.den, count |-> 5]
       ELSE [num |-> four, den |-> 1, count |-> 4]

(* C17: in a quality report overall_pass is the AND of the pass flags of    *)
(* every rule present and overall_score is the mean of the scores of every  *)
(* rule present, the file_size rule included when both sizes were given.    *)
C17_OverallCoversEveryRule ==
    \A i \in DOMAIN m_log :
        LET q == m_log[i].quality
            sum == PresentScoreSum(q)
        IN q.present =>
              /\ q.overall_pass =
                    (/\ q.rules.resolution.pass /\ q.rules.blur.pass
                     /\ q.rules.brightness.pass /\ q.rules.dynamic_range.pass
                     /\ q.has_file_size => q.file_size.pass)
              \* overall_score = sum / count
              /\ q.overall_score.num * sum.den * sum.count
                    = sum.num * (q.overall_score.den \div 192000)

-----------------------------------------------------------------------------
(* src/app_comprehensive.py: the loop body of main(), lines 667-935, in     *)
(* full mode, for a batch of one or two files.                              *)
(*                                                                          *)
(* Under Spec this code is cut short by the NameError at line 770.          *)
(* SpecStages applies it, stage by stage, to every binding of the names it  *)
(* reads (the three label lists, the models' outputs, the thresholds, the   *)
(* sidebar flags), and applies app.py's two paths to the same request.      *)

\* positions of the two threshold sliders (0.5 to 0.95 in steps of 0.05)
StageSpeciesThresholds == {50, 80, 90}
StageBreedThresholds == {50, 75}

\* the model invocation that raises for this request, if any
StageFails == {"none", "species", "sheep", "bovine"}

\* top_k slider default
TopK == 3

StageOnly == UNCHANGED <<appVars, mainVars, ledgerVars, labelVars, rerunVars, callVars>>

\* a head's top-1 for the guardrail, lines 794-803
GuardBest(labels, head, img) ==
    [label |-> BreedLabel(labels, head, Argmax(BreedOut(head, img))),
     conf |-> At(BreedOut(head, img), Argmax(BreedOut(head, img)))]

\* Lines 848-855: the top-K suggestions
TopSuggestions(labels, head, probs, top_k) ==
    [j \in 1..Min2(top_k, Len(labels)) |->
        LET idx == ArgsortDesc(probs)[j]
        IN [label |-> IF idx < Len(labels) THEN Name(At(labels, idx))
                      ELSE HeadClass(head, idx),
            conf |-> At(probs, idx)]]

\* a file is uploaded with the sidebar set
StageRequest(cfg, img, fail, st, bt, quality, privacy) ==
    /\ r_pc = "idle"
    /\ r_in' = [cfg |-> cfg, img |-> img, fail |-> fail, species_threshold |-> st,
                breed_threshold |-> bt, quality |-> quality, privacy |-> privacy]
    /\ r_pc' = "load"
    /\ UNCHANGED <<r_st, r_app>>
    /\ StageOnly

\* an except clause around a model call that lets the loop body go on
StageSwallow(what) ==
    /\ r_st' = [r_st EXCEPT !.raised = what]
    /\ r_pc' = "guardrail"

\* an exception out of the loop body ends the run
StageRaise(what) ==
    /\ r_st' = [r_st EXCEPT !.raised = what]
    /\ r_pc' = "crashed"

\* Lines 667-678: Image.open, hash, display
StageLoad ==
    /\ r_pc = "load"
    /\ IF Decodable(r_in.img)
       THEN /\ r_pc' = "quality"
            /\ r_st' = [r_st EXCEPT !.shown = @ \cup {"image"}, !.idx = r_st.index]
       ELSE StageRaise("UnidentifiedImageError")
    /\ UNCHANGED <<r_in, r_app>>
    /\ StageOnly

\* Lines 680-737: the quality check
StageQuality ==
    /\ r_pc = "quality"
    /\ IF r_in.quality
       THEN LET quality_results ==
                    assess_image_quality(QualityInputs(r_in.img), TRUE, MaxFileSizeMb)
            IN /\ r_st' = [r_st EXCEPT !.quality = quality_results,
                                       !.invoked = @ \cup {"quality"},
                                       !.shown = @ \cup {"quality"}]
               /\ r_pc' = AfterQuality(quality_results)
       ELSE /\ r_pc' = "crop"
            /\ UNCHANGED r_st
    /\ UNCHANGED <<r_in, r_app>>
    /\ StageOnly

\* Lines 739-755: crop assist, prepare_image
StageCrop ==
    /\ r_pc = "crop"
    /\ r_st' = [r_st EXCEPT !.shown = @ \cup {"crop"}]
    /\ r_pc' = "species"
    /\ UNCHANGED <<r_in, r_app>>
    /\ StageOnly

\* Lines 766-787: species prediction in full mode, and its display
StageSpecies ==
    /\ r_pc = "species"
    /\ IF r_in.fail = "species"
       THEN /\ StageRaise("ModelError")
            /\ UNCHANGED r_app
       ELSE LET sp_probs == SpeciesOut(r_in.cfg.species_model, r_in.img)
                sp_idx == Argmax(sp_probs)
                sp_label == SpeciesLabel(r_in.cfg.species_labels, sp_idx)
                sp_conf == At(sp_probs, sp_idx)
            IN /\ r_st' = [r_st EXCEPT
                     !.invoked = @ \cup {"species"},
                     !.sp_probs = sp_probs, !.sp_label = sp_label, !.sp_conf = sp_conf,
                     !.shown = @ \cup (IF sp_conf >= r_in.species_threshold
                                       THEN {"species_success"}
                                       ELSE {"species_warning", "verify_species"})]
               /\ r_pc' = "guardrail"
               /\ UNCHANGED r_app
    /\ UNCHANGED r_in
    /\ StageOnly

\* Lines 789-808: the router guardrail.  The sheep head is invoked first, the
\* bovine head second, and nothing catches an exception of either.
StageGuardrail ==
    /\ r_pc = "guardrail"
    /\ IF r_st.sp_conf < r_in.species_threshold
       THEN IF r_in.fail = "sheep"
            THEN /\ r_st' = [r_st EXCEPT !.invoked = @ \cup {"sheep"},
                                         !.raised = "ModelError"]
                 /\ r_pc' = "crashed"
            ELSE IF r_in.fail = "bovine"
            THEN /\ r_st' = [r_st EXCEPT !.invoked = @ \cup {"sheep", "bovine"},
                                         !.raised = "ModelError"]
                 /\ r_pc' = "crashed"
            ELSE /\ r_st' = [r_st EXCEPT
                       !.invoked = @ \cup {"sheep", "bovine"},
                       !.sheep_best = GuardBest(r_in.cfg.sheep_labels, "sheep", r_in.img),
                       !.bovine_best = GuardBest(r_in.cfg.bovine_labels, "bovine", r_in.img),
                       !.shown = @ \cup {"guardrail", "sheep_best", "bovine_best"}]
                 /\ r_pc' = "breed"
       ELSE /\ r_pc' = "breed"
            /\ UNCHANGED r_st
    /\ UNCHANGED <<r_in, r_app>>
    /\ StageOnly

\* Lines 825-845: the breed threshold
BreedShown(br_conf, breed_threshold) ==
    IF br_conf >= breed_threshold
    THEN {"breed_success"}
    ELSE {"breed_warning", "breed_below_threshold"}

\* key=f"correct_{image_hash}_{i}" of the suggestion buttons, line 859
CorrectKeys(img, n) == {[kind |-> "correct", h |-> img, i |-> i] : i \in 0..(n - 1)}

\* f"correction_form_{idx}", line 876, and the keys of lines 912-932
IdxKey(kind, idx) == [kind |-> kind, h |-> "", i |-> idx]

\* Lines 810-895: the breed stage on the routed head, top-K suggestions and
\* the correction form.  Streamlit raises when a widget or a form takes a key
\* that the run has already registered.
StageBreed ==
    /\ r_pc = "breed"
    /\ IF r_st.sp_conf >= r_in.species_threshold
       THEN LET head == RouteHead(r_st.sp_label)
                labels == HeadLabels(r_in.cfg, head)
                breed_probs == BreedOut(head, r_in.img)
                br_idx == Argmax(breed_probs)
                br_label == BreedLabel(labels, head, br_idx)
                br_conf == At(breed_probs, br_idx)
                n == Min2(TopK, Len(labels))
                \* the loop of lines 851-852 rebinds idx
                idx == IF n >= 1 THEN ArgsortDesc(breed_probs)[n] ELSE r_st.idx
                buttons == CorrectKeys(r_in.img, n)
                shown == [r_st EXCEPT
                            !.invoked = @ \cup {head}, !.head = head,
                            !.br_label = br_label, !.br_conf = br_conf,
                            !.shown = @ \cup {"breed", "top_suggestions"}
                                        \cup BreedShown(br_conf, r_in.breed_threshold)]
            IN IF r_in.fail = head
               THEN /\ r_st' = [r_st EXCEPT !.invoked = @ \cup {head}, !.head = head,
                                            !.raised = "ModelError"]
                    /\ r_pc' = "crashed"
               ELSE IF buttons \cap r_st.keys # {}
               THEN /\ r_st' = [shown EXCEPT !.raised = "DuplicateWidgetID"]
                    /\ r_pc' = "crashed"
               ELSE IF br_conf >= r_in.breed_threshold
               THEN /\ r_st' = [shown EXCEPT
                          !.top = TopSuggestions(labels, head, breed_probs, TopK),
                          !.idx = idx, !.keys = @ \cup buttons]
                    /\ r_pc' = "history"
               ELSE IF IdxKey("correction_form", idx) \in r_st.keys
               THEN /\ r_st' = [shown EXCEPT
                          !.top = TopSuggestions(labels, head, breed_probs, TopK),
                          !.idx = idx, !.keys = @ \cup buttons,
                          !.shown = @ \cup {"needs_manual"},
                          !.raised = "DuplicateFormKey"]
                    /\ r_pc' = "crashed"
               ELSE /\ r_st' = [shown EXCEPT
                          !.top = TopSuggestions(labels, head, breed_probs, TopK),
                          !.idx = idx,
                          !.keys = @ \cup buttons \cup {IdxKey("correction_form", idx)},
                          !.shown = @ \cup {"needs_manual", "correction_form"}]
                    /\ r_pc' = "history"
       ELSE /\ r_pc' = "history"
            /\ UNCHANGED r_st
    /\ UNCHANGED <<r_in, r_app>>
    /\ StageOnly

\* Lines 896-907: the session-history entry
StageHistory ==
    /\ r_pc = "history"
    /\ r_st' = IF r_in.privacy THEN r_st
               ELSE [r_st EXCEPT !.history = @ \o
                       <<[image_hash |-> r_in.img,
                          species |-> r_st.sp_label,
                          species_confidence |-> r_st.sp_conf,
                          breed |-> IF r_st.sp_conf >= r_in.species_threshold
                                    THEN r_st.br_label ELSE None,
                          breed_confidence |-> IF r_st.sp_conf >= r_in.species_threshold
                                               THEN r_st.br_conf ELSE 0]>>]
    /\ r_pc' = "actions"
    /\ UNCHANGED <<r_in, r_app>>
    /\ StageOnly

\* Lines 909-935: the buttons under the result, keyed by idx
StageActions ==
    /\ r_pc = "actions"
    /\ LET buttons == {IdxKey(kind, r_st.idx) : kind \in {"report", "new", "history"}}
       IN IF buttons \cap r_st.keys # {}
          THEN /\ r_st' = [r_st EXCEPT !.raised = "DuplicateWidgetID"]
               /\ r_pc' = "crashed"
          ELSE /\ r_st' = [r_st EXCEPT !.keys = @ \cup buttons,
                                       !.shown = @ \cup {"actions"}]
               /\ r_pc' = "done"
    /\ UNCHANGED <<r_in, r_app>>
    /\ StageOnly

\* the files a batch may hold after the first: "tie2" is another photo, with
\* other pixels, on which the models give what they give on "tie"
StageLater == {"tie", "tie2", "corrupt"}

\* Line 667: the loop goes on to the second file of the batch; the session
\* history and the keys registered so far stay
StageNextImage(img) ==
    /\ r_pc = "done"
    /\ r_st.index = 0
    /\ r_app.primary.stage # "none"
    /\ r_in' = [r_in EXCEPT !.img = img]
    /\ r_st' = [BlankStage EXCEPT !.index = 1, !.idx = r_st.idx,
                                  !.keys = r_st.keys, !.history = r_st.history]
    /\ r_app' = [primary |-> BlankResult, queued |-> BlankResult]
    /\ r_pc' = "load"
    /\ StageOnly

\* the model call of app.py that raises for this request
AppFailOf(cfg, img, fail) ==
    IF fail = "species" THEN "species"
    ELSE IF fail = RouteHead(AppSpecies(cfg, img).sp_label) THEN "breed"
    ELSE "none"

\* src/app.py, lines 235-296 and 317-360, on the same request
StageApp ==
    /\ r_pc # "idle"
    /\ r_app.primary.stage = "none"
    /\ r_app' = [primary |-> PrimaryResult(r_in.cfg, r_in.img,
                                 AppFailOf(r_in.cfg, r_in.img, r_in.fail)),
                 queued |-> QueuedResult(r_in.cfg, r_in.img,
                                 AppFailOf(r_in.cfg, r_in.img, r_in.fail))]
    /\ UNCHANGED <<r_in, r_pc, r_st>>
    /\ StageOnly

NextStages ==
    \/ \E cfg \in AppConfigs, img \in AppImages, fail \in StageFails,
          st \in StageSpeciesThresholds, bt \in StageBreedThresholds,
          quality \in BOOLEAN, privacy \in BOOLEAN :
          StageRequest(cfg, img, fail, st, bt, quality, privacy)
    \/ StageLoad
    \/ StageQuality
    \/ StageCrop
    \/ StageSpecies
    \/ StageGuardrail
    \/ StageBreed
    \/ StageHistory
    \/ StageActions
    \/ \E img \in StageLater : StageNextImage(img)
    \/ StageApp

SpecStages == Init /\ [][NextStages]_vars

\* the loop body is through with the request
StageEnded == r_pc \in {"done", "crashed"}

\* the guardrail branch was entered: a species was predicted below the threshold
InGuardrail ==
    /\ "species" \in r_st.invoked
    /\ r_st.sp_conf < r_in.species_threshold
    /\ r_pc \in {"breed", "history", "actions", "done", "crashed"}

(* C13: in the guardrail branch, when exactly one of the two head           *)
(* invocations fails, the top-1 of the other head is still reported,        *)
(* together with an indication that one side is unavailable.                *)
C13_GuardrailSurvivesOneHead ==
    (InGuardrail /\ StageEnded /\ r_in.fail \in {"sheep", "bovine"})
        => /\ (IF r_in.fail = "sheep" THEN "bovine_best" ELSE "sheep_best") \in r_st.shown
           /\ "one_side_unavailable" \in r_st.shown

BreedHeads == {"sheep", "bovine"}

\* a result of app.py carries no breed
NoBreedIn(r) ==
    /\ r.invoked \cap BreedHeads = {}
    /\ r.br_label = None
    /\ r.top = <<>>

(* C14: when the species model invocation fails for an image, no breed      *)
(* model, routed or guardrail, is invoked for the image and no breed label  *)
(* is reported or recorded for it, in either application.                   *)
C14_NoBreedAfterSpeciesFailure ==
    (r_in.fail = "species")
        => /\ r_st.invoked \cap BreedHeads = {}
           /\ r_st.shown \cap {"guardrail", "sheep_best", "bovine_best", "breed",
                               "breed_success", "breed_warning", "top_suggestions"} = {}
           /\ r_st.br_label = None /\ r_st.top = <<>>
           /\ r_st.sheep_best = NoBest /\ r_st.bovine_best = NoBest
           /\ r_st.history = <<>>
           /\ NoBreedIn(r_app.primary) /\ NoBreedIn(r_app.queued)

\* the species model raised in all three pipelines
C14_Witness ==
    /\ r_in.fail = "species"
    /\ r_pc = "crashed" /\ r_st.raised = "ModelError"
    /\ "species_model" \in r_app.primary.errors
    /\ r_app.queued.stage = "exception" /\ r_app.queued.invoked = {"species"}

(* C15: when the uploaded input cannot be decoded as an image the request   *)
(* ends with an error, and neither the quality gate nor any model is        *)
(* invoked for that input, in either application.                           *)
C15_UndecodableEndsRequest ==
    (r_in.img = "corrupt" /\ r_pc # "idle")
        => /\ r_pc \in {"load", "crashed"}
           /\ r_pc = "crashed" => r_st.raised = "UnidentifiedImageError"
           /\ r_st.invoked = {} /\ r_st.quality = NoQuality
           /\ r_st.shown = {} /\ Len(r_st.history) <= r_st.index
           /\ r_app.primary.invoked = {} /\ r_app.queued.invoked = {}
           /\ r_app.primary.stage # "none"
                => /\ r_app.primary.stage = "stopped"
                   /\ r_app.primary.errors = {"decode"}
                   /\ r_app.queued.stage = "exception"

\* an undecodable file went through all three pipelines
C15_Witness ==
    /\ r_in.img = "corrupt" /\ r_in.quality
    /\ r_pc = "crashed" /\ r_st.raised = "UnidentifiedImageError"
    /\ r_app.primary.errors = {"decode"}
    /\ r_app.queued.stage = "exception"

\* the floor under which a result is for manual check whatever the thresholds
Floor == 50

\* app.py shows a confidence under the floor with the red badge and its
\* warning (species) or error (breed)
AppFlagsBelowFloor(r) ==
    /\ (r.sp_badge # "none" /\ r.sp_conf < Floor)
          => r.sp_badge = "red" /\ "species_low" \in r.flags
    /\ (r.br_badge # "none" /\ r.br_conf < Floor)
          => r.br_badge = "red" /\ "breed_low" \in r.flags

-----------------------------------------------------------------------------
(* Both label resolvers on the same config value, list file and training    *)
(* directory.                                                               *)

ResolveLabels(val, file, fallback_json, dir) ==
    /\ g_in' = [val |-> val, file |-> file, fallback_json |-> fallback_json, dir |-> dir]
    /\ g_out' = [resolved |-> TRUE,
                 app |-> resolve_all_labels(val, file, dir),
                 full |-> ensure_labels(val, file, fallback_json, dir)]
    /\ UNCHANGED <<appVars, mainVars, ledgerVars, stageVars, rerunVars, callVars>>

NextLabels ==
    \E val \in LabelFields, file \in ListFiles, fallback_json \in FallbackFiles,
       dir \in TrainDirs : ResolveLabels(val, file, fallback_json, dir)

SpecLabels == Init /\ [][NextLabels]_vars

\* the resolution order: explicit list; list file when it is named, is there
\* and parses to a non-empty list; training directory; empty list
ResolutionOrder(val, file, dir) ==
    IF val.k = "list" /\ val.v # <<>> THEN Returned(val)
    ELSE IF /\ val.k = "path" /\ file # "missing"
            /\ ReadJson(file).raised = "none"
            /\ ReadJson(file).data.k = "list" /\ ReadJson(file).data.v # <<>>
    THEN ReadJson(file)
    ELSE IF dir.exists THEN Returned(JList(sorted(SubdirNames(dir.entries))))
    ELSE Returned(JList(<<>>))

(* C16: each breed head's labels are resolved in a fixed order, first       *)
(* success wins: a non-empty explicit list; else the referenced list file,  *)
(* only if it parses to a non-empty list (anything else falls through       *)
(* without raising); else the sorted subdirectory names of the training     *)
(* directory; else the empty list - by both resolvers.                      *)
C16_ResolutionOrder ==
    g_out.resolved
        => /\ g_out.app = ResolutionOrder(g_in.val, g_in.file, g_in.dir)
           /\ g_out.full = ResolutionOrder(g_in.val, g_in.file, g_in.dir)

-----------------------------------------------------------------------------
(* src/app_comprehensive.py: reruns of main() on the same upload.  Every    *)
(* rerun loads the models again (lines 564-572) and classifies the image    *)
(* again (lines 760-771); the image, the mode and the sidebar stay.         *)

MaxReruns == 2

\* what a run reports for the image
NoReport == [raised |-> "none", sp_label |-> None, sp_conf |-> 0, breed |-> None]

\* Lines 761-765: the offline branch, on the output of this run's lite model
OfflineReport(sp_probs) ==
    [NoReport EXCEPT !.sp_label = Name(OfflineLabel(sp_probs)),
                     !.sp_conf = VecMax(sp_probs)]

\* Lines 768-770: the full branch; species_labels is not bound
FullReport(proc) == [NoReport EXCEPT !.raised = "NameError"]

\* a file is uploaded with the sidebar set; the first run is due
Upload(img, offline, crop, t) ==
    /\ d_in.img = NoFile
    /\ d_in' = [img |-> img, offline |-> offline, crop |-> crop, species_threshold |-> t]
    /\ UNCHANGED d_runs
    /\ UNCHANGED <<appVars, mainVars, ledgerVars, stageVars, labelVars, callVars>>

\* One run of main().  load_mobile_net_model builds the lite model anew: the
\* ImageNet base is fixed, the two Dense layers on top take fresh random
\* weights, so the output on the image is any vector the head can give.
RerunMain ==
    /\ d_in.img # NoFile
    /\ Len(d_runs) < MaxReruns
    /\ \E v \in LiteVecs :
          d_runs' = Append(d_runs,
                       IF d_in.offline THEN OfflineReport(v)
                       ELSE FullReport(Processing(d_in.img, d_in.crop)))
    /\ UNCHANGED d_in
    /\ UNCHANGED <<appVars, mainVars, ledgerVars, stageVars, labelVars, callVars>>

NextReruns ==
    \/ \E img \in MainImages \cup {"sheepHi", "tie"}, offline \in BOOLEAN, crop \in BOOLEAN,
          t \in Thresholds :
          Upload(img, offline, crop, t)
    \/ RerunMain

SpecReruns == Init /\ [][NextReruns]_vars

(* C20: for a fixed image, fixed model files and fixed thresholds, two runs *)
(* of main(), in full mode and in offline mode, report the same species     *)
(* label and confidence and the same breed label and confidence.            *)
C20_RerunsAgree ==
    \A i, j \in DOMAIN d_runs :
        /\ d_runs[i].sp_label = d_runs[j].sp_label
        /\ d_runs[i].sp_conf = d_runs[j].sp_conf
        /\ d_runs[i].breed = d_runs[j].breed

-----------------------------------------------------------------------------
(* src/app_comprehensive.py: save_correction and its callers               *)

\* save_correction calls started, over all sessions
MaxCalls == 2

\* the breeds a user can mark as actual
ShownBreeds == {"gir", "sahiwal"}

\* br_label, the breed shown for the image
PredictedBreeds == {"gir"}

HeaderRow(call) ==
    [kind |-> "header", call |-> call, predicted |-> "", actual |-> "", part |-> "full"]
DataRow(call, predicted, actual) ==
    [kind |-> "data", call |-> call, predicted |-> predicted, actual |-> actual,
     part |-> "full"]

\* the leading bytes of a row, which a write that fails midway leaves behind
Torn(row) == [row EXCEPT !.part = "partial"]

\* the bytes of a row that follow the ones a short write has written
Rest(row) == [row EXCEPT !.part = "rest"]

\* the file after the bytes of add are appended to rows: the rest of a row
\* that lands right behind its own leading part completes that row
AppendRows(rows, add) ==
    IF /\ rows # <<>> /\ add # <<>>
       /\ add[1].part = "rest" /\ rows[Len(rows)].part = "partial"
       /\ add[1].call = rows[Len(rows)].call /\ add[1].kind = rows[Len(rows)].kind
    THEN SubSeq(rows, 1, Len(rows) - 1) \o <<[add[1] EXCEPT !.part = "full"]>>
             \o SubSeq(add, 2, Len(add))
    ELSE rows \o add

\* an except clause that lets the exception through
Reraise(e) == "raised"

\* Lines 448-450: except Exception as e: st.error(...); return False
HandleFailure(e) == "False"

\* the calls that returned and those inside save_correction
CallsStarted ==
    Len(l_done) + Cardinality({s \in Sessions : l_proc[s].pc \in {"exists", "open", "close"}})

IsData(row) == row.kind = "data"

LedgerOnly == UNCHANGED <<appVars, mainVars, stageVars, labelVars, rerunVars, callVars>>

\* Lines 859-861 and 882-883: a click on "This one is correct", or the
\* correction form, calls save_correction for the breed on show
CallSave(s, shown, actual) ==
    /\ l_proc[s].pc = "idle"
    /\ CallsStarted < MaxCalls
    /\ l_proc' = [l_proc EXCEPT ![s] =
           [IdleProc EXCEPT !.pc = "exists", !.call = CallsStarted + 1,
                            !.actual = actual, !.shown = shown,
                            !.queue = l_proc[s].queue,
                            !.history = l_proc[s].history]]
    /\ UNCHANGED <<l_file, l_done>>
    /\ LedgerOnly

\* Line 441: file_exists = CORRECTIONS_FILE.exists()
SaveExists(s) ==
    /\ l_proc[s].pc = "exists"
    /\ l_proc' = [l_proc EXCEPT ![s].file_exists = l_file.exists, ![s].pc = "open"]
    /\ UNCHANGED <<l_file, l_done>>
    /\ LedgerOnly

Return(s, failed, returned) ==
    /\ l_proc' = [l_proc EXCEPT ![s].pc = "returned", ![s].failed = failed,
                                ![s].returned = returned, ![s].pending = <<>>]
    /\ l_done' = Append(l_done, [call |-> l_proc[s].call, session |-> s,
                                 failed |-> failed, returned |-> returned])

\* Lines 442-446: open for append, which creates the file, then the header
\* when the file did not exist and the record, both into the file's buffer
SaveOpen(s) ==
    /\ l_proc[s].pc = "open"
    /\ \/ /\ l_file' = [l_file EXCEPT !.exists = TRUE]
          /\ l_proc' = [l_proc EXCEPT ![s].pc = "close", ![s].pending =
                 (IF l_proc[s].file_exists THEN <<>> ELSE <<HeaderRow(l_proc[s].call)>>)
                     \o <<DataRow(l_proc[s].call, l_proc[s].shown, l_proc[s].actual)>>]
          /\ UNCHANGED l_done
       \/ \* open raises OSError
          /\ Return(s, "open", HandleFailure("OSError"))
          /\ UNCHANGED l_file
    /\ LedgerOnly

\* Lines 442-447: leaving the with block flushes the buffer and closes the
\* file.  A flush that fails has written some leading part of the buffer.
\* save_correction holds no lock on the file: the flush hands the buffer to
\* the operating system in one write or, after a short write, in two, and
\* other sessions append in between.
SaveClose(s) ==
    /\ l_proc[s].pc = "close"
    /\ LET pending == l_proc[s].pending
       IN \/ /\ l_file' = [l_file EXCEPT !.rows = AppendRows(@, pending)]
             /\ Return(s, "none", "True")
          \/ \E k \in {Len(pending) - 1} :
                \* a short write; the cut explored is inside the data row
                /\ \A i \in DOMAIN pending : pending[i].part = "full"
                /\ l_file' = [l_file EXCEPT !.rows =
                       @ \o SubSeq(pending, 1, k) \o <<Torn(pending[k + 1])>>]
                /\ l_proc' = [l_proc EXCEPT ![s].pending =
                       <<Rest(pending[k + 1])>> \o SubSeq(pending, k + 2, Len(pending))]
                /\ UNCHANGED l_done
          \/ \E k \in 0..(Len(pending) - 1), torn \in BOOLEAN :
                /\ l_file' = [l_file EXCEPT !.rows =
                       AppendRows(@, SubSeq(pending, 1, k)
                         \o (IF torn THEN <<Torn(pending[k + 1])>> ELSE <<>>))]
                /\ Return(s, "flush", HandleFailure("OSError"))
    /\ LedgerOnly

\* a caller that queues the correction whatever save_correction returned
QueueAlways(queue, returned, entry) == Append(queue, entry)

\* Lines 861-871 / 883-894: if save_correction(...): ...append({...})
QueueAfter(queue, returned, entry) ==
    IF returned = "True" THEN Append(queue, entry) ELSE queue

\* Lines 861-871 / 883-894, then 896-907: the caller queues the correction
\* when the save returned True, reports otherwise, and goes on to record the
\* image in the session history.  An exception out of save_correction would
\* end the run before that.
CallerAfter(s) ==
    /\ l_proc[s].pc = "returned"
    /\ l_proc' = [l_proc EXCEPT ![s].pc = "idle",
                                ![s].queued = l_proc[s].returned = "True",
                                ![s].queue = QueueAfter(@, l_proc[s].returned,
                                    [call |-> l_proc[s].call,
                                     predicted |-> l_proc[s].shown,
                                     actual |-> l_proc[s].actual]),
                                ![s].history = IF l_proc[s].returned = "raised"
                                               THEN @ ELSE l_proc[s].shown,
                                ![s].recorded = IF l_proc[s].returned = "raised"
                                                THEN "none" ELSE l_proc[s].shown]
    /\ UNCHANGED <<l_file, l_done>>
    /\ LedgerOnly

\* Lines 975-979: "Clear History" empties session_history and reruns; the
\* button is rendered only while the history has entries
ClearHistory(s) ==
    /\ l_proc[s].pc = "idle"
    /\ l_proc[s].history # "none"
    /\ l_proc' = [l_proc EXCEPT ![s].history = "none"]
    /\ UNCHANGED <<l_file, l_done>>
    /\ LedgerOnly

\* Lines 984-997: "Export Training Data", rendered while the queue has
\* entries.  pd is bound by the import at line 943, which runs only when the
\* history view is drawn with entries in it.
ExportQueue(s) ==
    /\ l_proc[s].pc = "idle"
    /\ l_proc[s].queue # <<>>
    /\ l_proc' = [l_proc EXCEPT ![s].exported =
           IF l_proc[s].history # "none" THEN "csv" ELSE "UnboundLocalError"]
    /\ UNCHANGED <<l_file, l_done>>
    /\ LedgerOnly

NextLedger ==
    \/ \E s \in Sessions, shown \in PredictedBreeds, actual \in ShownBreeds :
          CallSave(s, shown, actual)
    \/ \E s \in Sessions : SaveExists(s)
    \/ \E s \in Sessions : SaveOpen(s)
    \/ \E s \in Sessions : SaveClose(s)
    \/ \E s \in Sessions : CallerAfter(s)
    \/ \E s \in Sessions : ClearHistory(s)
    \/ \E s \in Sessions : ExportQueue(s)

InitLedger == MainStart /\ AppIdle /\ LedgerIdle /\ StageIdle /\ LabelsIdle /\ RerunsIdle /\ CallsIdle

SpecLedger == InitLedger /\ [][NextLedger]_vars

(* Claims about save_correction                                             *)

RECURSIVE SucceededRows(_)
\* the records of the calls that returned True, in order of return
SucceededRows(done) ==
    IF done = <<>> THEN <<>>
    ELSE SucceededRows(SubSeq(done, 1, Len(done) - 1))
         \o (IF done[Len(done)].returned = "True"
             THEN <<done[Len(done)].call>> ELSE <<>>)

RECURSIVE RecordsOf(_)
\* what the file holds besides header lines: whole and partial records
RecordsOf(rows) ==
    IF rows = <<>> THEN <<>>
    ELSE RecordsOf(SubSeq(rows, 1, Len(rows) - 1))
         \o (IF IsData(rows[Len(rows)])
             THEN <<[call |-> rows[Len(rows)].call, part |-> rows[Len(rows)].part]>>
             ELSE <<>>)

\* C9: after any sequence of save_correction calls of which N succeed, the
\* file holds exactly N data records, those of the successful calls in call
\* order; a failed call adds no full or partial record.
C9_LedgerHoldsSuccessfulCalls ==
    /\ Len(RecordsOf(l_file.rows)) = Len(SucceededRows(l_done))
    /\ \A i \in DOMAIN RecordsOf(l_file.rows) :
          /\ RecordsOf(l_file.rows)[i].part = "full"
          /\ i \in DOMAIN SucceededRows(l_done)
          /\ RecordsOf(l_file.rows)[i].call = SucceededRows(l_done)[i]

\* C10: a write failure inside save_correction comes back to the caller as
\* False and never as an exception; the breed on show for the image and the
\* session-history entry recorded after the call are those of a call that
\* succeeded.
C10_WriteFailureReturnsFalse ==
    /\ \A i \in DOMAIN l_done :
          /\ l_done[i].returned # "raised"
          /\ l_done[i].failed # "none" => l_done[i].returned = "False"
          /\ l_done[i].failed = "none" => l_done[i].returned = "True"
    /\ \A s \in Sessions :
          (l_proc[s].pc = "idle" /\ l_proc[s].call # 0) =>
              /\ l_proc[s].recorded = l_proc[s].shown
              /\ l_proc[s].queued = (l_proc[s].failed = "none")

\* a call whose flush failed has returned and its caller has gone on
C10_Witness ==
    \E s \in Sessions :
        /\ l_proc[s].pc = "idle"
        /\ l_proc[s].failed = "flush"
        /\ l_proc[s].returned = "False"
        /\ l_proc[s].recorded = l_proc[s].shown

RECURSIVE SavedBy(_, _)
\* the calls of session s that returned True, in order of return
SavedBy(done, s) ==
    IF done = <<>> THEN <<>>
    ELSE SavedBy(SubSeq(done, 1, Len(done) - 1), s)
         \o (IF done[Len(done)].returned = "True" /\ done[Len(done)].session = s
             THEN <<done[Len(done)].call>> ELSE <<>>)

\* C11: within a session the active-learning queue is exactly the sequence of
\* corrections whose save_correction call returned success, in call order,
\* each with the predicted and actual label written to the ledger; a failed
\* save appends nothing and neither Clear History nor an export removes or
\* reorders an entry.
C11_QueueIsSuccessfulSaves ==
    \A s \in Sessions :
        LET queue == l_proc[s].queue
            saved == SavedBy(l_done, s)
            \* a call that has returned and whose caller has not gone on yet
            due == IF l_proc[s].pc = "returned" /\ l_proc[s].returned = "True"
                   THEN 1 ELSE 0
        IN /\ Len(queue) = Len(saved) - due
           /\ \A i \in DOMAIN queue :
                 /\ queue[i].call = saved[i]
                 /\ \E j \in DOMAIN l_file.rows :
                       /\ IsData(l_file.rows[j])
                       /\ l_file.rows[j].call = queue[i].call
                       /\ l_file.rows[j].predicted = queue[i].predicted
                       /\ l_file.rows[j].actual = queue[i].actual

\* a session saved one correction, failed to save another, cleared its
\* history and exported: the queue holds the saved one
C11_Witness ==
    \E s \in Sessions :
        /\ l_proc[s].pc = "idle"
        /\ Len(l_proc[s].queue) = 1
        /\ l_proc[s].failed # "none"
        /\ l_proc[s].exported # "none"
        /\ l_proc[s].history = "none"

\* C12: when sessions call save_correction concurrently and every call
\* succeeds, the appends are serialized: once the calls have returned, every
\* row of the file is whole, no row is split by another writer's row, and
\* the file holds the record of every call exactly once.
C12_AppendsSerialized ==
    (/\ \A i \in DOMAIN l_done : l_done[i].failed = "none"
     /\ \A s \in Sessions : l_proc[s].pc \in {"idle", "returned"}) =>
        /\ \A j \in DOMAIN l_file.rows : l_file.rows[j].part = "full"
        /\ \A i \in DOMAIN l_done :
              Cardinality({j \in DOMAIN l_file.rows :
                              /\ IsData(l_file.rows[j])
                              /\ l_file.rows[j].call = l_done[i].call}) = 1

-----------------------------------------------------------------------------
(* src/app.py: the script and its user                                      *)

\* which model invocation of a run raises
Fails == {"none", "species", "breed"}

AppStart ==
    /\ a_cfg \in AppConfigs
    /\ a_uploaded = NoFile
    /\ a_next_upload = NoFile
    /\ a_next_bytes = NoFile
    /\ a_next_shown = FALSE
    /\ a_pending = FALSE
    /\ a_primary = BlankResult
    /\ a_queued = BlankResult

InitApp == AppStart /\ MainStart /\ LedgerIdle /\ StageIdle /\ LabelsIdle /\ RerunsIdle /\ CallsIdle

\* the user puts a file into the primary uploader
AppUpload(img) ==
    /\ a_uploaded # img
    /\ a_uploaded' = img
    /\ a_pending' = TRUE
    /\ UNCHANGED <<a_cfg, a_next_upload, a_next_bytes, a_next_shown, a_primary, a_queued>>
    /\ UNCHANGED <<mainVars, ledgerVars, stageVars, labelVars, rerunVars, callVars>>

\* the user removes the file of the primary uploader
AppClearPrimary ==
    /\ a_uploaded # NoFile
    /\ a_uploaded' = NoFile
    /\ a_pending' = TRUE
    /\ UNCHANGED <<a_cfg, a_next_upload, a_next_bytes, a_next_shown, a_primary, a_queued>>
    /\ UNCHANGED <<mainVars, ledgerVars, stageVars, labelVars, rerunVars, callVars>>

\* the user puts a file into the second uploader, once the page shows it
AppUploadNext(img) ==
    /\ a_next_shown
    /\ a_next_upload # img
    /\ a_next_upload' = img
    /\ a_pending' = TRUE
    /\ UNCHANGED <<a_cfg, a_uploaded, a_next_bytes, a_next_shown, a_primary, a_queued>>
    /\ UNCHANGED <<mainVars, ledgerVars, stageVars, labelVars, rerunVars, callVars>>

\* the user removes the file of the second uploader
AppClearNext ==
    /\ a_next_upload # NoFile
    /\ a_next_upload' = NoFile
    /\ a_pending' = TRUE
    /\ UNCHANGED <<a_cfg, a_uploaded, a_next_bytes, a_next_shown, a_primary, a_queued>>
    /\ UNCHANGED <<mainVars, ledgerVars, stageVars, labelVars, rerunVars, callVars>>

\* reset_app(): every session key is deleted, then st.rerun().  Deleting the
\* uploaders' keys may or may not empty the uploaders.
reset_app ==
    /\ a_next_bytes' = NoFile
    /\ \E emptied \in BOOLEAN :
          /\ a_uploaded' = IF emptied THEN NoFile ELSE a_uploaded
          /\ a_next_upload' = IF emptied THEN NoFile ELSE a_next_upload
    /\ a_pending' = TRUE
    /\ UNCHANGED <<a_cfg, a_next_shown, a_primary, a_queued>>
    /\ UNCHANGED <<mainVars, ledgerVars, stageVars, labelVars, rerunVars, callVars>>

\* one run of the script, top to bottom
AppRun ==
    /\ a_pending
    /\ \E f1 \in Fails, f2 \in Fails :
        LET prim == IF a_uploaded = NoFile THEN BlankResult
                    ELSE PrimaryResult(a_cfg, a_uploaded, f1)
            stopped == prim.stage = "stopped"
            \* the second uploader is rendered after a first result
            shown == a_uploaded # NoFile /\ ~stopped
            \* a file in it is queued and the script reruns at once
            rerun == shown /\ a_next_upload # NoFile
            \* otherwise a queued image is popped and processed
            runq == ~stopped /\ ~rerun /\ a_next_bytes # NoFile
        IN /\ a_primary' = prim
           /\ a_next_shown' = shown
           /\ a_next_upload' = IF shown THEN a_next_upload ELSE NoFile
           /\ a_next_bytes' = IF rerun THEN a_next_upload
                              ELSE IF runq THEN NoFile ELSE a_next_bytes
           /\ a_queued' = IF runq THEN QueuedResult(a_cfg, a_next_bytes, f2)
                          ELSE BlankResult
           /\ a_pending' = rerun
    /\ UNCHANGED <<a_cfg, a_uploaded>>
    /\ UNCHANGED <<mainVars, ledgerVars, stageVars, labelVars, rerunVars, callVars>>

NextApp ==
    \/ \E img \in AppImages : AppUpload(img)
    \/ AppClearPrimary
    \/ \E img \in AppImages : AppUploadNext(img)
    \/ AppClearNext
    \/ reset_app
    \/ AppRun

SpecApp == InitApp /\ [][NextApp]_vars

\* One deployment, where Streamlit executes a script run that is due
SpecAppFair == Init /\ [][NextApp]_vars /\ WF_vars(AppRun)

\* the results on the page
AppShown == {r \in {a_primary, a_queued} : r.stage # "none"}

-----------------------------------------------------------------------------
(* Claims about src/app.py, checked under SpecApp                           *)

\* C2 (as claimed): in app.py, whenever the species confidence is below the
\* default species threshold 0.80, no routed breed head is run and no single
\* breed is reported, in the primary path and in the next-image path.
C2_NoRoutedBreedBelowThreshold ==
    \A r \in AppShown :
        (r.sp_label # None /\ r.sp_conf < 80) =>
            (r.br_label = None /\ r.invoked = {"species"})

\* C4 (as claimed): when the label list of the head a request needs is empty,
\* a configuration error is shown and that head's model is not invoked.
C4_EmptyLabelsSurfaced ==
    \A r \in AppShown :
        (r.head # "none" /\ HeadLabels(a_cfg, r.head) = <<>>) =>
            ("config" \in r.errors /\ r.head \notin r.invoked)

\* C5: the breed head is a function of the species label alone: the sheep head
\* iff the label equals "sheep" ignoring case, the bovine head for every other
\* label ("unknown" and third species included); only that head's model is
\* invoked and the breed label is taken from, or named after, that same head.
C5_HeadBySpeciesLabel ==
    \A r \in AppShown :
        r.head # "none" =>
            /\ r.head = (IF Lower(r.sp_label.n) = "sheep" THEN "sheep" ELSE "bovine")
            /\ r.invoked \subseteq {"species", r.head}
            /\ r.br_label.k = "name" =>
                  \E j \in DOMAIN HeadLabels(a_cfg, r.head) :
                      HeadLabels(a_cfg, r.head)[j] = r.br_label.n
            /\ r.br_label.k = "head_class" => r.br_label.h = r.head

\* C5 witness: a third species went to the bovine head and, for the queued
\* image, the label "SHEEP" went to the sheep head.
C5_Witness ==
    /\ a_primary.stage = "breed" /\ a_primary.sp_label = Name("goat")
    /\ a_primary.head = "bovine" /\ "bovine" \in a_primary.invoked
    /\ a_queued.stage = "breed" /\ a_queued.sp_label = Name("SHEEP")
    /\ a_queued.head = "sheep" /\ "sheep" \in a_queued.invoked

\* the arg-max indexes behind a shown result
SpIdxOf(r) == Argmax(SpeciesOut(a_cfg.species_model, r.img))
BrIdxOf(r) == Argmax(BreedOut(r.head, r.img))
TopIdxOf(r, j) == ArgsortDesc(BreedOut(r.head, r.img))[j]

\* no lookup of a shown result raised IndexError, and the species and breed
\* labels of an index beyond the list are "unknown" and "<head>_class_<i>"
C7_SpeciesAndBreedPlaceholders(r) ==
    /\ r.sp_label # IndexError /\ r.br_label # IndexError
    /\ \A j \in DOMAIN r.top : r.top[j].label # IndexError
    /\ (r.stage \in {"species", "breed"}
          /\ SpIdxOf(r) >= Len(a_cfg.species_labels)) => r.sp_label = Name("unknown")
    /\ (r.stage = "breed" /\ BrIdxOf(r) >= Len(HeadLabels(a_cfg, r.head)))
          => r.br_label = HeadClass(r.head, BrIdxOf(r))

-----------------------------------------------------------------------------
(* Single calls of the programs' functions: each behaviour is one call.     *)

\* auto_crop_image is called on every image size up to MaxSide
MaxSide == 8

CallOnly == UNCHANGED <<appVars, mainVars, ledgerVars, stageVars, labelVars, rerunVars>>

CropCall(width, height, use_face_detection) ==
    /\ f_call = NoCall
    /\ f_call' = [fn |-> "auto_crop_image", width |-> width, height |-> height,
                  use_face_detection |-> use_face_detection]
    /\ \E out \in auto_crop_image([width |-> width, height |-> height],
                                  use_face_detection) :
          f_ret' = [fn |-> "auto_crop_image", image |-> out]
    /\ CallOnly

\* The measurements assess_image_quality is called on: sides around 512,
\* Laplacian variance around 120, brightness and standard deviation in 1/1000
\* around their thresholds, and the two optional sizes.
Sides == {100, 512, 600}
Variances == {0, 119, 120, 300}
Brightnesses == {0, 100, 249, 250, 400, 500, 600, 750, 751, 900, 1000}
DynamicRanges == {0, 149, 150, 200}
\* None, the default of both size arguments
Absent == 0 - 1
FileSizes == {Absent, 0, 1, 6}
MaxFileSizes == {Absent, 0, 5}

\* Line 321: the file_size rule is computed when both sizes are given
QualityCall(width, height, variance, brightness, dynamic_range, file_size_bytes, max_file_size_bytes) ==
    LET both == file_size_bytes # Absent /\ max_file_size_bytes # Absent
        q == [width |-> width, height |-> height, variance |-> variance,
              brightness |-> brightness, dynamic_range |-> dynamic_range,
              size |-> IF both THEN file_size_bytes ELSE 0]
    IN /\ f_call = NoCall
       /\ f_call' = [fn |-> "assess_image_quality", image |-> q,
                     file_size_bytes |-> file_size_bytes,
                     max_file_size_bytes |-> max_file_size_bytes]
       /\ f_ret' = [fn |-> "assess_image_quality",
                    results |-> assess_image_quality(q, both,
                                    IF both THEN max_file_size_bytes ELSE 0)]
       /\ CallOnly

NextCalls ==
    /\ f_call = NoCall
    /\ \/ \E width \in 1..MaxSide, height \in 1..MaxSide, use_face_detection \in BOOLEAN :
             CropCall(width, height, use_face_detection)
       \/ \E width \in Sides, height \in Sides, variance \in Variances,
             brightness \in Brightnesses, dynamic_range \in DynamicRanges,
             file_size_bytes \in FileSizes, max_file_size_bytes \in MaxFileSizes :
             QualityCall(width, height, variance, brightness, dynamic_range,
                         file_size_bytes, max_file_size_bytes)

SpecCalls == Init /\ [][NextCalls]_vars

\* the returned image is a crop with pixels, inside the image and centred
\* on it up to the rounding of one pixel
CentredCrop(call, image) ==
    /\ ~image.original
    /\ image.width >= 1 /\ image.height >= 1
    /\ image.x >= 0 /\ image.x + image.width <= call.width
    /\ image.y >= 0 /\ image.y + image.height <= call.height
    /\ call.width - (2 * image.x + image.width) \in {0, 1}
    /\ call.height - (2 * image.y + image.height) \in {0, 1}

\* C21: for every width and height >= 1 and either policy, auto_crop_image
\* returns a centred crop that has pixels, or the original image; it never
\* returns an image of zero area.
C21_CropNeverEmpty ==
    f_ret.fn = "auto_crop_image"
        => /\ f_ret.image.width * f_ret.image.height > 0
           /\ \/ CentredCrop(f_call, f_ret.image)
              \/ f_ret.image = Uncropped(f_call)

\* a score compared with 1.0
Below1(score) == score.num < score.den
AtLeast1(score) == score.num >= score.den

\* C23: the brightness rule passes iff 0.25 <= b <= 0.75; its score is 1.0
\* for b in the band above the midpoint and strictly below 1.0 whenever b is
\* outside the band, too dark (b < 0.25) or too bright (b > 0.75).
C23_BrightnessScoreBothSides ==
    f_ret.fn = "assess_image_quality"
        => LET b == f_call.image.brightness
               rule == f_ret.results.rules.brightness
           IN /\ rule.pass <=> (250 <= b /\ b <= 750)
              /\ (500 <= b /\ b <= 750) => rule.score = Frac(1, 1)
              /\ (b < 250 \/ b > 750) => Below1(rule.score)

\* a rule's score is a number >= 0, and its flag says whether it reaches 1.0
FlagMatchesScore(rule) ==
    /\ rule.score.den > 0
    /\ rule.score.num >= 0
    /\ rule.pass <=> AtLeast1(rule.score)

\* C24: for resolution, blur, dynamic_range and file_size the score is >= 0
\* and the pass flag is true iff the score is >= 1.0, for all non-negative
\* inputs, a file size of 0 and a maximum of 0 included; file_size is in the
\* report iff both sizes are supplied, and no division by zero occurs.
C24_PassIffScoreAtLeastOne ==
    f_ret.fn = "assess_image_quality"
        => /\ \A name \in {"resolution", "blur", "dynamic_range"} :
                 FlagMatchesScore(f_ret.results.rules[name])
           /\ f_ret.results.has_file_size
                 <=> (f_call.file_size_bytes # Absent /\ f_call.max_file_size_bytes # Absent)
           /\ f_ret.results.has_file_size => FlagMatchesScore(f_ret.results.file_size)

-----------------------------------------------------------------------------
(* src/app_comprehensive.py: main(), the order of the stages                *)

\* the crop assistant has produced the pixels of the current image
CropDone == m_loc.processing.img = m_widgets.files[m_idx + 1]

\* the quality gate has reported on the current image
QualityDone == Len(m_log) = m_idx + 1 /\ m_log[m_idx + 1].quality.present

\* C22: for each image the stages run in the order Crop Assistant, Quality
\* Gate, species inference: when the Quality Gate starts the crop is done, so
\* the gate assesses the image that is classified, and when species inference
\* starts an enabled Quality Gate has reported.
C22_CropThenQualityThenSpecies ==
    /\ (m_pc = "quality" /\ m_widgets.quality /\ m_widgets.crop) => CropDone
    /\ (m_pc = "species" /\ m_widgets.quality) => QualityDone /\ CropDone

\* C25: for any sequence of toggles of the offline checkbox across reruns,
\* the models a run loaded agree with the offline flag its routing reads:
\* when the offline branch is taken the species model in use is the lite
\* model, and a breed head that is invoked was loaded in that run.
C25_ModelsAgreeWithOfflineFlag ==
    \A i \in DOMAIN m_log :
        /\ (m_log[i].offline /\ "species" \in m_log[i].invoked)
               => m_log[i].species_model = "lite"
        /\ m_log[i].invoked \cap BreedHeads # {} => m_log[i].species_model = "full"

-----------------------------------------------------------------------------
(* src/app.py: the second uploader                                          *)

\* the queued-image block has popped the image and rendered its results
QueuedDone(img) ==
    /\ a_queued.img = img
    /\ a_queued.stage # "none"
    /\ a_next_bytes = NoFile

\* C26: once a file is in the second uploader, the script eventually reaches
\* the queued-image block, pops _next_bytes and renders the results for that
\* file, unless the user takes the file out first: the rerun of the second
\* uploader is not repeated forever while the file stays selected.
C26_QueuedImageIsProcessed ==
    \A img \in AppImages :
        (a_next_upload = img) ~> (a_next_upload # img \/ QueuedDone(img))

-----------------------------------------------------------------------------
(* The top-K listings of both programs                                      *)

\* the first entry of a listing is the reported breed prediction
FirstIsPrediction(top, br_label, br_conf) ==
    top # <<>> => top[1].label = br_label /\ top[1].conf = br_conf

\* C27: for every breed probability vector, exact ties for the maximum
\* included, the first entry of the top-K list has the label and confidence
\* of the reported breed prediction (the arg-max), in app.py's topk listing
\* and in app_comprehensive.py's top-K suggestions.
C27_FirstSuggestionIsPrediction ==
    /\ FirstIsPrediction(r_st.top, r_st.br_label, r_st.br_conf)
    /\ \A r \in {r_app.primary, r_app.queued} :
          FirstIsPrediction(r.top, r.br_label, r.br_conf)

-----------------------------------------------------------------------------
(* src/app_comprehensive.py: the widget keys of a batch                     *)

\* the keys of the three buttons under the current image's result
ActionKeys == {IdxKey(kind, r_st.idx) : kind \in {"report", "new", "history"}}

-----------------------------------------------------------------------------
(* src/app_comprehensive.py: the session history across reruns              *)

\* the images this run has recorded, in processing order
RecordedNow == SelectSeq(m_log, LAMBDA e : e.recorded)

\* the history ends with the entries of this run, one per image, in order
EndsWithThisRun ==
    LET h == m_session.session_history
        n == Len(RecordedNow)
    IN /\ n <= Len(h)
       /\ \A i \in 1..n : h[Len(h) - n + i].image_hash = RecordedNow[i].img

\* C29: with privacy mode off the session history holds one entry per
\* uploaded image per upload, in processing order: a run appends the images
\* it processes, and a rerun started by a button under a result, while the
\* same files stay uploaded, appends nothing for the images already recorded.
C29_OneEntryPerImagePerUpload ==
    /\ []EndsWithThisRun
    /\ [][(m_widgets.clicked # NoClick /\ ~m_widgets.privacy)
             => m_session'.session_history = m_session.session_history]_vars

-----------------------------------------------------------------------------
(* src/app_comprehensive.py: the header of corrections.csv                  *)

\* C30: starting from an absent corrections.csv, after any sequence of
\* save_correction calls that all succeed, calls of two sessions that overlap
\* before the file exists included, the file has the header row exactly once,
\* as its first row, and every other row is a whole data record.
C30_HeaderOnceAndFirst ==
    (/\ \A i \in DOMAIN l_done : l_done[i].failed = "none"
     /\ \A s \in Sessions : l_proc[s].pc \in {"idle", "returned"}
     /\ l_file.rows # <<>>) =>
        /\ l_file.rows[1] = HeaderRow(l_file.rows[1].call)
        /\ \A j \in 2..Len(l_file.rows) :
              IsData(l_file.rows[j]) /\ l_file.rows[j].part = "full"

====
